---- MODULE Spec2Model ----
(***************************************************************************)
(* A model of the file-backed segment block of                             *)
(* internal/store/segment/block/file.go: its header, payload and index     *)
(* regions, the append and read paths, index recovery and the close        *)
(* protocol.                                                               *)
(*                                                                         *)
(* Spec          Initialize, Append, Read, CloseWrite and CloseRead, each   *)
(*               call running to completion.                               *)
(* RecoverySpec  Append, sealing, and reopening the file as a new block.   *)
(* ConcSpec      Append and CloseWrite as threads, one step per group of   *)
(*               source lines.                                             *)
(***************************************************************************)
EXTENDS Integers, Sequences, FiniteSets, TLC

(* ------------------------------ constants ------------------------------ *)
fileSegmentBlockHeaderCapacity == 1024
v1FileSegmentBlockHeaderLength == 4 + 8 + 4 + 8
v1IndexLength == 12

(* ------------------------------- bounds -------------------------------- *)
Capacity == 1066
MaxPayload == 1
MaxBatch == 2
MaxStart == 2
MaxCount == 2
MaxReopens == 1
MaxIOFailures == 1
MaxCalls == 2
Appenders == {"a1", "a2"}

\* Decoded integers of 2^24 and above are all represented by Huge: they are
\* far beyond every file offset of the model and never take part in sums
\* that matter.
Huge == 256 * 256 * 256

(* --------------------------- byte-level codec --------------------------- *)
Min(a, b) == IF a < b THEN a ELSE b

\* binary.Write(buf, binary.BigEndian, int32)
BigEndianInt32(n) ==
    << (n \div 16777216) % 256, (n \div 65536) % 256, (n \div 256) % 256, n % 256 >>

\* binary.Write(buf, binary.BigEndian, int64), for 0 <= n < 2^31
BigEndianInt64(n) == << 0, 0, 0, 0 >> \o BigEndianInt32(n)

\* binary.Read(reader, binary.BigEndian, &int32)
ReadInt32(bs) ==
    IF bs[1] # 0 THEN Huge ELSE bs[2] * 65536 + bs[3] * 256 + bs[4]

\* binary.Read(reader, binary.BigEndian, &int64)
ReadInt64(bs) ==
    IF \E i \in 1..5 : bs[i] # 0 THEN Huge ELSE bs[6] * 65536 + bs[7] * 256 + bs[8]

\* codec.Marshall: the 4-byte big-endian length followed by the payload
Marshall(e) == BigEndianInt32(e.Length) \o e.Payload

(* ------------------------------- the file ------------------------------- *)
\* The file content is a function from the offsets written so far to bytes;
\* every other offset below the file size holds a zero byte.
ByteAt(data, off) == IF off \in DOMAIN data THEN data[off] ELSE 0

ReadBytes(data, off, len) == [i \in 1..len |-> ByteAt(data, off + i - 1)]

WriteBytes(data, off, bs) ==
    [o \in (DOMAIN data) \cup (off .. (off + Len(bs) - 1)) |->
        IF o >= off /\ o < off + Len(bs) THEN bs[o - off + 1] ELSE data[o]]

\* os.File.ReadAt fills the whole buffer or fails
ReadAtOk(open, size, off, len) ==
    open /\ off >= 0 /\ (len = 0 \/ off + len <= size)

(* ----------------------------- append path ------------------------------ *)
\* the entries appended: payloads of every length up to MaxPayload, the
\* bytes of a payload all different
Entries == { [Length |-> n, Payload |-> [i \in 1..n |-> i]] : n \in 0..MaxPayload }

Batches == UNION { [1..k -> Entries] : k \in 0..MaxBatch }

\* one batch of every size, its entries of different payload lengths in turn
SizedBatches ==
    { [i \in 1..k |-> CHOOSE e \in Entries : e.Length = (i - 1) % (MaxPayload + 1)] :
        k \in 0..MaxBatch }

RECURSIVE SumLen(_, _)
\* total marshalled size of the first k entities
SumLen(entities, k) ==
    IF k = 0 THEN 0 ELSE SumLen(entities, k - 1) + Len(Marshall(entities[k]))

RECURSIVE ConcatData(_, _)
\* buf after the first k entities were written to it
ConcatData(entities, k) ==
    IF k = 0 THEN << >> ELSE ConcatData(entities, k - 1) \o Marshall(entities[k])

\* the loop of Append: buf, length and idxes for a batch, given b.writeOffset
Serialize(wo, entities) ==
    [ buf    |-> ConcatData(entities, Len(entities)),
      length |-> SumLen(entities, Len(entities)),
      idxes  |-> [i \in 1..Len(entities) |->
                    [ startOffset |-> wo + SumLen(entities, i - 1),
                      length      |-> Len(Marshall(entities[i])) ]] ]

\* remain without the reservation of the header region
remainNoHeader(cap, len, num, sizeNeedServed) ==
    cap - len - num * v1IndexLength - sizeNeedServed

remain(cap, len, num, sizeNeedServed) ==
    (cap - len - num * v1IndexLength - sizeNeedServed) - fileSegmentBlockHeaderCapacity

\* the capacity test of Append
NoEnoughCapacity(cap, len, num, ser) ==
    ser.length > remain(cap, len, num, ser.length + v1IndexLength * Len(ser.idxes))

\* the outcomes of physicalFile.Write(buf): the number of bytes written; the
\* call fails unless all of them were
WriteOutcomes(open, buf, mayFail) ==
    IF ~open THEN {0} ELSE IF mayFail THEN 0..Len(buf) ELSE {Len(buf)}

(* ------------------------------ read path ------------------------------- *)
\* calculateRange with the bound test off by one
calculateRangeOffByOne(idx, num, start, cnt) ==
    IF start > Len(idx)
    THEN [ err |-> "OffsetExceeded", from |-> -1, to |-> -1 ]
    ELSE IF start >= Len(idx)
    THEN [ err |-> "panic", from |-> -1, to |-> -1 ]
    ELSE LET offset == start + cnt - 1
             last   == IF num < offset + 1 THEN num - 1 ELSE offset
         IN  IF last < 0 \/ last >= Len(idx)
             THEN [ err |-> "panic", from |-> -1, to |-> -1 ]
             ELSE [ err  |-> "nil",
                    from |-> idx[start + 1].startOffset,
                    to   |-> idx[last + 1].startOffset + idx[last + 1].length ]

\* Go slices are indexed from 0, sequences from 1.
calculateRange(idx, num, start, cnt) ==
    IF start >= Len(idx)
    THEN [ err |-> "OffsetExceeded", from |-> -1, to |-> -1 ]
    ELSE LET offset == start + cnt - 1
             last   == IF num < offset + 1 THEN num - 1 ELSE offset
         IN  IF last < 0 \/ last >= Len(idx)
             THEN [ err |-> "panic", from |-> -1, to |-> -1 ]
             ELSE [ err  |-> "nil",
                    from |-> idx[start + 1].startOffset,
                    to   |-> idx[last + 1].startOffset + idx[last + 1].length ]

RECURSIVE Deframe(_, _, _)
\* the deframing loop of Read over data, pos bytes consumed, ses emitted
Deframe(data, pos, ses) ==
    LET left == Len(data) - pos IN
    IF left = 0 THEN [ err |-> "nil", entries |-> ses ]            \* binary.Read: io.EOF
    ELSE IF left < 4 THEN [ err |-> "UnexpectedEOF", entries |-> << >> ]
    ELSE LET size == ReadInt32(SubSeq(data, pos + 1, pos + 4))
             n    == Min(size, left - 4)
         IN  IF left - 4 = 0
             THEN [ err |-> "nil", entries |-> ses ]               \* reader.Read: io.EOF
             ELSE Deframe(data, pos + 4 + n,
                          Append(ses, [ Length  |-> size,
                                        Payload |-> SubSeq(data, pos + 5, pos + 4 + n) ]))

\* Read as a whole, on a given block and file
ReadResult(idx, num, data, open, size, start, cnt) ==
    LET r == calculateRange(idx, num, start, cnt) IN
    IF r.err # "nil" THEN [ err |-> r.err, entries |-> << >> ]
    ELSE IF r.to - r.from < 0 THEN [ err |-> "panic", entries |-> << >> ]
    ELSE IF ~ReadAtOk(open, size, r.from, r.to - r.from)
         THEN [ err |-> "IOError", entries |-> << >> ]
    ELSE Deframe(ReadBytes(data, r.from, r.to - r.from), 0, << >>)

(* --------------------------- header and index --------------------------- *)
\* the bytes persistHeader writes at offset 0
HeaderBytes(ver, cap, len, num) ==
    BigEndianInt32(ver) \o BigEndianInt64(cap) \o BigEndianInt64(len) \o BigEndianInt32(num)

\* the fields loadHeader decodes and the write offset it derives
loadHeader(data) ==
    LET hd == ReadBytes(data, 0, v1FileSegmentBlockHeaderLength)
        len == ReadInt64(SubSeq(hd, 13, 20))
    IN  [ version     |-> ReadInt32(SubSeq(hd, 1, 4)),
          capacity    |-> ReadInt64(SubSeq(hd, 5, 12)),
          length      |-> len,
          number      |-> ReadInt32(SubSeq(hd, 21, 24)),
          writeOffset |-> v1FileSegmentBlockHeaderLength + len ]

RECURSIVE IndexBytes(_, _)
\* the bytes persistIndex writes for the first k records
IndexBytes(idx, k) ==
    IF k = 0 THEN << >>
    ELSE IndexBytes(idx, k - 1) \o BigEndianInt64(idx[k].startOffset)
                                \o BigEndianInt32(idx[k].length)

\* loadIndex on a full block: decode num records read at wo
loadIndexFull(data, open, size, wo, num) ==
    IF ~ReadAtOk(open, size, wo, num * v1IndexLength)
    THEN [ err |-> "IOError",
           indexes |-> [i \in 1..num |-> [startOffset |-> 0, length |-> 0]] ]
    ELSE [ err |-> "nil",
           indexes |-> [i \in 1..num |->
              LET rec == ReadBytes(data, wo + (i - 1) * v1IndexLength, v1IndexLength)
              IN  [ startOffset |-> ReadInt64(SubSeq(rec, 1, 8)),
                    length      |-> ReadInt32(SubSeq(rec, 9, 12)) ]] ]

RECURSIVE Rebuild(_, _, _, _, _, _)
\* loadIndex on a partial block: scan the length prefixes from off; idx is
\* the array being filled, k the entries scanned so far
Rebuild(data, open, size, idx, k, off) ==
    IF k = Len(idx) THEN [ err |-> "nil", indexes |-> idx ]
    ELSE IF ~ReadAtOk(open, size, off, 4) THEN [ err |-> "IOError", indexes |-> idx ]
    ELSE LET entityLen == ReadInt32(ReadBytes(data, off, 4))
         IN  Rebuild(data, open, size,
                     [idx EXCEPT ![k + 1] = [startOffset |-> off, length |-> entityLen]],
                     k + 1, Min(off + 4 + entityLen, Huge))

loadIndex(data, open, size, full, wo, num) ==
    IF full THEN loadIndexFull(data, open, size, wo, num)
    ELSE Rebuild(data, open, size,
                 [i \in 1..num |-> [startOffset |-> 0, length |-> 0]],
                 0, fileSegmentBlockHeaderCapacity)

(* -------------------------------- state --------------------------------- *)
VARIABLES
    \* fileBlock
    version, capacity, length, number, writeOffset, indexes,
    readable, appendable, fullFlag,
    uncompletedReadRequestCount, uncompletedAppendRequestCount, appendMutex,
    \* physicalFile: content, size, cursor of Write, descriptor open
    fileData, fileSize, filePos, fileOpen,
    \* "constructed" until Initialize ran, then "ready" or "failed"
    phase,
    \* threads: position and locals
    pc, loc,
    \* history: entries of the Appends that returned nil, whether anything
    \* but such Appends and Reads happened to this block object, the last
    \* completed call, the state the previous block object ended in, whether
    \* CloseWrite returned, the block objects opened so far, the failed file
    \* writes so far, the Append calls threads made so far
    appended, clean, lastOp, prev, closeWriteReturned, reopens, ioFailures, calls,
    \* what the Append threads stored (one record per index record) and the
    \* file writes they made, in order
    journal

blockVars == << version, capacity, length, number, writeOffset, indexes >>
flagVars  == << readable, appendable, fullFlag >>
syncVars  == << uncompletedReadRequestCount, uncompletedAppendRequestCount, appendMutex >>
fileVars  == << fileData, fileSize, filePos, fileOpen >>
procVars  == << pc, loc >>
histVars  == << appended, clean, lastOp, prev, closeWriteReturned, reopens, ioFailures,
               calls, journal >>
vars == << blockVars, flagVars, syncVars, fileVars, phase, procVars, histVars >>

Threads == Appenders \cup {"cw", "r", "cr"}

NoLoc == [ batch |-> << >>, buf |-> << >>, idxes |-> << >>, n |-> 0,
           err |-> "nil", pre |-> << >>, before |-> FALSE, after |-> FALSE, id |-> 0 ]

\* the locals of the Read thread
NoRead == [ start |-> 0, cnt |-> 0, startPos |-> 0, clamp |-> FALSE, last |-> 0,
            endPos |-> 0, err |-> "nil", entries |-> << >>, torn |-> FALSE ]

\* the block and file state a call started from
Snapshot ==
    [ capacity |-> capacity, length |-> length, number |-> number,
      writeOffset |-> writeOffset, indexes |-> indexes,
      fileData |-> fileData, fileSize |-> fileSize, filePos |-> filePos ]

NoOp == [ op |-> "none", batch |-> << >>, start |-> 0, cnt |-> 0, err |-> "nil",
          entries |-> << >>, path |-> "none", pre |-> << >>, after |-> FALSE ]

\* no call is in progress
Quiescent == \A t \in Threads : pc[t] = "idle"

\* The file the allocator created: a header with length 0 and number 0, the
\* rest zero, of exactly Capacity bytes.
FreshFile == WriteBytes(<< >>, 0, HeaderBytes(1, Capacity, 0, 0))

\* where the opener leaves the cursor of the descriptor: appends go to
\* writeOffset
OpenSeek(wo) == wo

Init ==
    /\ version = 0 /\ capacity = 0 /\ length = 0 /\ number = 0
    /\ writeOffset = 0 /\ indexes = << >>
    /\ readable = TRUE /\ appendable = TRUE /\ fullFlag = FALSE
    /\ uncompletedReadRequestCount = 0 /\ uncompletedAppendRequestCount = 0
    /\ appendMutex = "free"
    /\ fileData = FreshFile /\ fileSize = Capacity /\ filePos = 0 /\ fileOpen = TRUE
    /\ phase = "constructed"
    /\ pc = [t \in Threads |-> "idle"] /\ loc = [t \in Appenders \cup {"r"} |-> IF t = "r" THEN NoRead ELSE NoLoc]
    /\ appended = << >> /\ clean = TRUE /\ lastOp = NoOp
    /\ prev = [ indexes |-> << >>, clean |-> FALSE, sealed |-> FALSE ]
    /\ closeWriteReturned = FALSE /\ reopens = 0 /\ ioFailures = 0 /\ calls = 0
    /\ journal = [ stored |-> << >>, written |-> << >> ]

(* ----------------------- operations run to completion ------------------- *)
\* Initialize: loadHeader, loadIndex, validate
Initialize ==
    /\ phase = "constructed"
    /\ LET h  == loadHeader(fileData)
           li == loadIndex(fileData, fileOpen, fileSize, fullFlag, h.writeOffset, h.number)
       IN  /\ version' = h.version /\ capacity' = h.capacity /\ length' = h.length
           /\ number' = h.number /\ writeOffset' = h.writeOffset
           /\ indexes' = li.indexes
           /\ phase' = IF li.err = "nil" THEN "ready" ELSE "failed"
           /\ filePos' = OpenSeek(h.writeOffset)
           /\ lastOp' = [NoOp EXCEPT !.op = "Initialize", !.err = li.err,
                                     !.path = IF fullFlag THEN "full" ELSE "rebuild"]
    /\ UNCHANGED << flagVars, syncVars, fileData, fileSize, fileOpen, procVars,
                    appended, clean, prev, closeWriteReturned, reopens, ioFailures, calls, journal >>

\* physicalFile.Write(buf) when n bytes get written
FileWrite(buf, n) ==
    /\ fileData' = WriteBytes(fileData, filePos, SubSeq(buf, 1, n))
    /\ filePos' = filePos + n
    /\ fileSize' = IF filePos + n > fileSize THEN filePos + n ELSE fileSize
    /\ UNCHANGED fileOpen

\* the three statements of Append that follow the write
Publish(idxes, n) ==
    /\ indexes' = indexes \o idxes
    /\ number' = number + Len(idxes)
    /\ writeOffset' = writeOffset + n
    /\ UNCHANGED << version, capacity, length >>

AppendOp(entities) ==
    /\ phase = "ready" /\ Quiescent
    /\ LET ser == Serialize(writeOffset, entities)
           done(err) == [NoOp EXCEPT !.op = "Append", !.batch = entities, !.err = err,
                                     !.pre = Snapshot, !.after = closeWriteReturned]
       IN  IF Len(entities) = 0
           THEN /\ lastOp' = done("nil")
                /\ UNCHANGED << blockVars, fileVars, appended, clean, ioFailures >>
           ELSE IF NoEnoughCapacity(capacity, length, number, ser)
           THEN /\ lastOp' = done("NoEnoughCapacity")
                /\ UNCHANGED << blockVars, fileVars, appended, clean, ioFailures >>
           ELSE \E n \in WriteOutcomes(fileOpen, ser.buf, ioFailures < MaxIOFailures) :
                /\ FileWrite(ser.buf, n)
                /\ Publish(ser.idxes, n)
                /\ lastOp' = done(IF n = Len(ser.buf) THEN "nil" ELSE "IOError")
                /\ appended' = IF n = Len(ser.buf) THEN appended \o entities ELSE appended
                /\ clean' = (clean /\ n = Len(ser.buf))
                /\ ioFailures' = IF n = Len(ser.buf) \/ ~fileOpen
                                 THEN ioFailures ELSE ioFailures + 1
    /\ UNCHANGED << flagVars, syncVars, phase, procVars, prev, closeWriteReturned, reopens,
                    calls, journal >>

ReadOp(start, cnt) ==
    /\ phase = "ready" /\ Quiescent
    /\ LET r == ReadResult(indexes, number, fileData, fileOpen, fileSize, start, cnt)
       IN  lastOp' = [NoOp EXCEPT !.op = "Read", !.start = start, !.cnt = cnt,
                                  !.err = r.err, !.entries = r.entries]
    /\ UNCHANGED << blockVars, flagVars, syncVars, fileVars, phase, procVars,
                    appended, clean, prev, closeWriteReturned, reopens, ioFailures, calls, journal >>

\* persistHeader: WriteAt(header, 0)
PersistHeader ==
    fileData' = WriteBytes(fileData, 0, HeaderBytes(version, capacity, length, number))

\* persistIndex on a full block: WriteAt(index records, writeOffset)
PersistIndex(data) ==
    /\ fileData' = WriteBytes(data, writeOffset, IndexBytes(indexes, Len(indexes)))
    /\ fileSize' = IF writeOffset + v1IndexLength * Len(indexes) > fileSize
                   THEN writeOffset + v1IndexLength * Len(indexes) ELSE fileSize

CloseWriteOp ==
    /\ phase = "ready" /\ Quiescent
    /\ appendable' = FALSE
    /\ IF ~fileOpen
       THEN /\ UNCHANGED << fileData, fileSize >>
            /\ lastOp' = [NoOp EXCEPT !.op = "CloseWrite", !.err = "IOError"]
       ELSE /\ IF fullFlag
               THEN PersistIndex(WriteBytes(fileData, 0,
                                   HeaderBytes(version, capacity, length, number)))
               ELSE PersistHeader /\ UNCHANGED fileSize
            /\ lastOp' = [NoOp EXCEPT !.op = "CloseWrite",
                                      !.path = IF fullFlag THEN "full" ELSE "partial"]
    /\ closeWriteReturned' = TRUE
    /\ UNCHANGED << blockVars, readable, fullFlag, syncVars, filePos, fileOpen, phase,
                    procVars, appended, clean, prev, reopens, ioFailures, calls, journal >>

CloseReadOp ==
    /\ phase = "ready" /\ Quiescent
    /\ IF ~fileOpen
       THEN /\ lastOp' = [NoOp EXCEPT !.op = "CloseRead", !.err = "IOError"]
            /\ UNCHANGED << readable, fileOpen >>
       ELSE /\ fileOpen' = FALSE /\ readable' = FALSE
            /\ lastOp' = [NoOp EXCEPT !.op = "CloseRead"]
    /\ UNCHANGED << blockVars, appendable, fullFlag, syncVars, fileData, fileSize, filePos,
                    phase, procVars, appended, clean, prev, closeWriteReturned, reopens,
                    ioFailures, calls, journal >>

\* the allocator marks the block full
MarkFull ==
    /\ phase = "ready" /\ Quiescent /\ ~fullFlag
    /\ fullFlag' = TRUE
    /\ UNCHANGED << blockVars, readable, appendable, syncVars, fileVars, phase, procVars,
                    histVars >>

\* the process ends and a new block object is constructed around the same
\* file, marked full or not by its opener
Reopen(full) ==
    /\ phase = "ready" /\ Quiescent /\ reopens < MaxReopens
    /\ version' = 0 /\ capacity' = 0 /\ length' = 0 /\ number' = 0
    /\ writeOffset' = 0 /\ indexes' = << >>
    /\ readable' = TRUE /\ appendable' = ~full /\ fullFlag' = full
    /\ fileOpen' = TRUE /\ filePos' = 0
    /\ phase' = "constructed"
    /\ prev' = [ indexes |-> indexes, clean |-> clean,
                 sealed |-> lastOp.op = "CloseWrite" /\ lastOp.err = "nil"
                            /\ lastOp.path = "full" ]
    /\ appended' = << >> /\ clean' = FALSE /\ lastOp' = NoOp
    /\ closeWriteReturned' = FALSE /\ reopens' = reopens + 1
    /\ UNCHANGED << syncVars, fileData, fileSize, procVars, ioFailures, calls, journal >>

Next ==
    \/ Initialize
    \/ \E entities \in Batches : AppendOp(entities)
    \/ \E start \in 0..MaxStart, cnt \in 1..MaxCount : ReadOp(start, cnt)
    \/ CloseWriteOp
    \/ CloseReadOp

Spec == Init /\ [][Next]_vars

\* sealing, ending the process and opening the file again
RecoveryNext ==
    \/ Initialize
    \/ \E entities \in Batches : AppendOp(entities)
    \/ MarkFull
    \/ CloseWriteOp
    \/ \E full \in BOOLEAN : Reopen(full)

RecoverySpec == Init /\ [][RecoveryNext]_vars

(* ------------------------- operations as threads ------------------------ *)
\* Append, one step per group of source lines.  A thread enters the call,
\* takes appendMutex, counts itself in, serializes and checks the batch,
\* writes, publishes the index records, number and writeOffset one after
\* the other, and on return releases the mutex and counts itself out.
AppendCall(a, entities) ==
    /\ phase = "ready" /\ pc[a] = "idle" /\ calls < MaxCalls
    /\ pc' = [pc EXCEPT ![a] = "lock"]
    /\ loc' = [loc EXCEPT ![a] = [NoLoc EXCEPT !.batch = entities,
                                               !.after = closeWriteReturned,
                                               !.id = calls + 1]]
    /\ calls' = calls + 1
    /\ UNCHANGED << blockVars, flagVars, syncVars, fileVars, phase, journal,
                    appended, clean, lastOp, prev, closeWriteReturned, reopens, ioFailures >>

\* appendMutex.Lock() that does not wait for the holder
AppendLockNoWait(a) ==
    /\ pc[a] = "lock"
    /\ appendMutex' = a
    /\ pc' = [pc EXCEPT ![a] = "inc"]
    /\ UNCHANGED << blockVars, flagVars, uncompletedReadRequestCount,
                    uncompletedAppendRequestCount, fileVars, phase, loc, histVars >>

AppendLock(a) ==
    /\ pc[a] = "lock" /\ appendMutex = "free"
    /\ appendMutex' = a
    /\ pc' = [pc EXCEPT ![a] = "inc"]
    /\ UNCHANGED << blockVars, flagVars, uncompletedReadRequestCount,
                    uncompletedAppendRequestCount, fileVars, phase, loc, histVars >>

AppendInc(a) ==
    /\ pc[a] = "inc"
    /\ uncompletedAppendRequestCount' = uncompletedAppendRequestCount + 1
    /\ pc' = [pc EXCEPT ![a] = "body"]
    /\ UNCHANGED << blockVars, flagVars, uncompletedReadRequestCount, appendMutex,
                    fileVars, phase, loc, histVars >>

AppendBody(a) ==
    /\ pc[a] = "body"
    /\ LET ser == Serialize(writeOffset, loc[a].batch)
           l0  == [loc[a] EXCEPT !.pre = Snapshot]
       IN  IF Len(loc[a].batch) = 0
           THEN /\ pc' = [pc EXCEPT ![a] = "unlock"]
                /\ loc' = [loc EXCEPT ![a] = l0]
           ELSE IF NoEnoughCapacity(capacity, length, number, ser)
           THEN /\ pc' = [pc EXCEPT ![a] = "unlock"]
                /\ loc' = [loc EXCEPT ![a] = [l0 EXCEPT !.err = "NoEnoughCapacity"]]
           ELSE /\ pc' = [pc EXCEPT ![a] = "write"]
                /\ loc' = [loc EXCEPT ![a] = [l0 EXCEPT !.buf = ser.buf,
                                                        !.idxes = ser.idxes]]
    /\ UNCHANGED << blockVars, flagVars, syncVars, fileVars, phase, histVars >>

AppendWrite(a) ==
    /\ pc[a] = "write"
    /\ \E n \in WriteOutcomes(fileOpen, loc[a].buf, ioFailures < MaxIOFailures) :
        /\ FileWrite(loc[a].buf, n)
        /\ journal' = [journal EXCEPT !.written =
                         Append(@, [ call |-> loc[a].id, at |-> filePos, n |-> n,
                                     first |-> loc[a].idxes[1].startOffset ])]
        /\ loc' = [loc EXCEPT ![a].n = n,
                              ![a].err = IF n = Len(loc[a].buf) THEN "nil" ELSE "IOError"]
        /\ ioFailures' = IF n = Len(loc[a].buf) \/ ~fileOpen
                         THEN ioFailures ELSE ioFailures + 1
    /\ pc' = [pc EXCEPT ![a] = "idx"]
    /\ UNCHANGED << blockVars, flagVars, syncVars, phase,
                    appended, clean, lastOp, prev, closeWriteReturned, reopens, calls >>

AppendIdx(a) ==
    /\ pc[a] = "idx"
    /\ indexes' = indexes \o loc[a].idxes
    /\ journal' = [journal EXCEPT !.stored =
                     @ \o [k \in 1..Len(loc[a].batch) |->
                            [ call |-> loc[a].id, k |-> k, of |-> Len(loc[a].batch),
                              entry |-> loc[a].batch[k] ]]]
    /\ pc' = [pc EXCEPT ![a] = "num"]
    /\ UNCHANGED << version, capacity, length, number, writeOffset, flagVars, syncVars,
                    fileVars, phase, loc, appended, clean, lastOp, prev,
                    closeWriteReturned, reopens, ioFailures, calls >>

AppendNum(a) ==
    /\ pc[a] = "num"
    /\ number' = number + Len(loc[a].idxes)
    /\ pc' = [pc EXCEPT ![a] = "off"]
    /\ UNCHANGED << version, capacity, length, writeOffset, indexes, flagVars, syncVars,
                    fileVars, phase, loc, histVars >>

AppendOff(a) ==
    /\ pc[a] = "off"
    /\ writeOffset' = writeOffset + loc[a].n
    /\ pc' = [pc EXCEPT ![a] = "unlock"]
    /\ UNCHANGED << version, capacity, length, number, indexes, flagVars, syncVars,
                    fileVars, phase, loc, histVars >>

AppendUnlock(a) ==
    /\ pc[a] = "unlock"
    /\ appendMutex' = "free"
    /\ pc' = [pc EXCEPT ![a] = "dec"]
    /\ UNCHANGED << blockVars, flagVars, uncompletedReadRequestCount,
                    uncompletedAppendRequestCount, fileVars, phase, loc, histVars >>

AppendDec(a) ==
    /\ pc[a] = "dec"
    /\ uncompletedAppendRequestCount' = uncompletedAppendRequestCount - 1
    /\ pc' = [pc EXCEPT ![a] = "idle"]
    /\ loc' = [loc EXCEPT ![a] = NoLoc]
    /\ lastOp' = [NoOp EXCEPT !.op = "Append", !.batch = loc[a].batch,
                              !.err = loc[a].err, !.pre = loc[a].pre,
                              !.after = loc[a].after]
    /\ appended' = IF loc[a].err = "nil" THEN appended \o loc[a].batch ELSE appended
    /\ clean' = (clean /\ loc[a].err # "IOError")
    /\ UNCHANGED << blockVars, flagVars, uncompletedReadRequestCount, appendMutex,
                    fileVars, phase, prev, closeWriteReturned, reopens, ioFailures, calls, journal >>

\* CloseWrite: clear appendable, wait until the count of appends reads
\* zero, persistHeader under appendMutex, persistIndex.  loc[a].before marks
\* the Appends of a non-empty batch that held appendMutex when CloseWrite
\* started.
CloseWriteStart ==
    /\ phase = "ready" /\ pc["cw"] = "idle" /\ ~closeWriteReturned
    /\ appendable' = FALSE
    /\ pc' = [pc EXCEPT !["cw"] = "spin"]
    /\ loc' = [a \in DOMAIN loc |->
                 IF a \in Appenders
                 THEN [loc[a] EXCEPT !.before = (/\ pc[a] \notin {"idle", "lock", "dec"}
                                                 /\ Len(loc[a].batch) > 0)]
                 ELSE loc[a]]
    /\ UNCHANGED << blockVars, readable, fullFlag, syncVars, fileVars, phase, histVars >>

\* the loop ends on reading 0; reading anything else sleeps and reads again
CloseWriteSpin ==
    /\ pc["cw"] = "spin" /\ uncompletedAppendRequestCount = 0
    /\ pc' = [pc EXCEPT !["cw"] = "hlock"]
    /\ UNCHANGED << blockVars, flagVars, syncVars, fileVars, phase, loc, histVars >>

CloseWriteLock ==
    /\ pc["cw"] = "hlock" /\ appendMutex = "free"
    /\ appendMutex' = "cw"
    /\ pc' = [pc EXCEPT !["cw"] = "header"]
    /\ UNCHANGED << blockVars, flagVars, uncompletedReadRequestCount,
                    uncompletedAppendRequestCount, fileVars, phase, loc, histVars >>

CloseWriteHeader ==
    /\ pc["cw"] = "header"
    /\ appendMutex' = "free"
    /\ IF fileOpen
       THEN /\ PersistHeader
            /\ pc' = [pc EXCEPT !["cw"] = "index"]
            /\ UNCHANGED << lastOp, closeWriteReturned >>
       ELSE /\ UNCHANGED fileData
            /\ pc' = [pc EXCEPT !["cw"] = "idle"]
            /\ lastOp' = [NoOp EXCEPT !.op = "CloseWrite", !.err = "IOError"]
            /\ closeWriteReturned' = TRUE
    /\ UNCHANGED << blockVars, flagVars, uncompletedReadRequestCount,
                    uncompletedAppendRequestCount, fileSize, filePos, fileOpen, phase, loc,
                    appended, clean, prev, reopens, ioFailures, calls, journal >>

CloseWriteIndex ==
    /\ pc["cw"] = "index"
    /\ IF ~fullFlag
       THEN /\ UNCHANGED << fileData, fileSize >>
            /\ lastOp' = [NoOp EXCEPT !.op = "CloseWrite", !.path = "partial"]
       ELSE IF fileOpen
       THEN /\ PersistIndex(fileData)
            /\ lastOp' = [NoOp EXCEPT !.op = "CloseWrite", !.path = "full"]
       ELSE /\ UNCHANGED << fileData, fileSize >>
            /\ lastOp' = [NoOp EXCEPT !.op = "CloseWrite", !.err = "IOError"]
    /\ pc' = [pc EXCEPT !["cw"] = "idle"]
    /\ closeWriteReturned' = TRUE
    /\ UNCHANGED << blockVars, flagVars, syncVars, filePos, fileOpen, phase, loc,
                    appended, clean, prev, reopens, ioFailures, calls, journal >>

ConcNext ==
    \/ Initialize
    \/ MarkFull
    \/ \E a \in Appenders :
        \/ \E entities \in Batches : AppendCall(a, entities)
        \/ AppendLock(a) \/ AppendInc(a) \/ AppendBody(a) \/ AppendWrite(a)
        \/ AppendIdx(a) \/ AppendNum(a) \/ AppendOff(a)
        \/ AppendUnlock(a) \/ AppendDec(a)
    \/ CloseWriteStart \/ CloseWriteSpin \/ CloseWriteLock
    \/ CloseWriteHeader \/ CloseWriteIndex

ConcSpec == Init /\ [][ConcNext]_vars

\* the Append threads alone
AppendNext ==
    \/ Initialize
    \/ \E a \in Appenders :
        \/ \E entities \in SizedBatches : AppendCall(a, entities)
        \/ AppendLock(a) \/ AppendInc(a) \/ AppendBody(a) \/ AppendWrite(a)
        \/ AppendIdx(a) \/ AppendNum(a) \/ AppendOff(a)
        \/ AppendUnlock(a) \/ AppendDec(a)

AppendSpec == Init /\ [][AppendNext]_vars

(* ------------------- Read and CloseRead, step by step -------------------- *)
\* b.indexes is read by Read without synchronisation while Append extends it
\* (a data race): besides the slice as it is, a read made while an Append is
\* at its append statement may see the new length with records that are not
\* yet filled in.  loc["r"].torn records that a Read saw such a view.
TornIndex == [ startOffset |-> 0, length |-> 0 ]

IndexViews ==
    {indexes} \cup { indexes \o [i \in 1..Len(loc[a].idxes) |-> TornIndex] :
                       a \in { x \in Appenders : pc[x] = "idx" } }

\* a panic ends the process, and with it every thread
Crash(e, view) ==
    /\ pc' = [t \in Threads |-> "crashed"]
    /\ loc' = [loc EXCEPT !["r"].err = e,
                          !["r"].torn = (loc["r"].torn \/ view # indexes)]

ReadCall(start, cnt) ==
    /\ phase = "ready" /\ pc["r"] = "idle"
    /\ pc' = [pc EXCEPT !["r"] = "inc"]
    /\ loc' = [loc EXCEPT !["r"] = [NoRead EXCEPT !.start = start, !.cnt = cnt]]
    /\ UNCHANGED << blockVars, flagVars, syncVars, fileVars, phase, histVars >>

ReadInc ==
    /\ pc["r"] = "inc"
    /\ uncompletedReadRequestCount' = uncompletedReadRequestCount + 1
    /\ pc' = [pc EXCEPT !["r"] = "len"]
    /\ UNCHANGED << blockVars, flagVars, uncompletedAppendRequestCount, appendMutex,
                    fileVars, phase, loc, histVars >>

\* calculateRange: if start >= len(b.indexes)
ReadLen ==
    /\ pc["r"] = "len"
    /\ \E view \in IndexViews :
        IF loc["r"].start >= Len(view)
        THEN /\ pc' = [pc EXCEPT !["r"] = "dec"]
             /\ loc' = [loc EXCEPT !["r"].err = "OffsetExceeded"]
        ELSE /\ pc' = [pc EXCEPT !["r"] = "startPos"]
             /\ loc' = [loc EXCEPT !["r"].torn = (view # indexes)]
    /\ UNCHANGED << blockVars, flagVars, syncVars, fileVars, phase, histVars >>

\* startPos := b.indexes[start].startOffset
ReadStartPos ==
    /\ pc["r"] = "startPos"
    /\ \E view \in IndexViews :
        IF loc["r"].start >= Len(view)
        THEN Crash("panic", view)
        ELSE /\ pc' = [pc EXCEPT !["r"] = "num"]
             /\ loc' = [loc EXCEPT !["r"].startPos = view[loc["r"].start + 1].startOffset,
                                   !["r"].torn = (loc["r"].torn \/ view # indexes)]
    /\ UNCHANGED << blockVars, flagVars, syncVars, fileVars, phase, histVars >>

\* if b.number < int32(offset+1)
ReadNum ==
    /\ pc["r"] = "num"
    /\ pc' = [pc EXCEPT !["r"] = "endPos"]
    /\ loc' = [loc EXCEPT !["r"].clamp = (number < loc["r"].start + loc["r"].cnt)]
    /\ UNCHANGED << blockVars, flagVars, syncVars, fileVars, phase, histVars >>

\* endPos from b.indexes[b.number-1] or from b.indexes[offset]
ReadEndPos ==
    /\ pc["r"] = "endPos"
    /\ LET last == IF loc["r"].clamp THEN number - 1
                   ELSE loc["r"].start + loc["r"].cnt - 1
       IN  \E view \in IndexViews :
            IF last < 0 \/ last >= Len(view)
            THEN Crash("panic", view)
            ELSE /\ pc' = [pc EXCEPT !["r"] = "readAt"]
                 /\ loc' = [loc EXCEPT !["r"].last = last,
                                       !["r"].endPos = view[last + 1].startOffset
                                                         + view[last + 1].length,
                                       !["r"].torn = (loc["r"].torn \/ view # indexes)]
    /\ UNCHANGED << blockVars, flagVars, syncVars, fileVars, phase, histVars >>

\* data := make([]byte, to-from); ReadAt(data, from); the deframing loop
ReadAt ==
    /\ pc["r"] = "readAt"
    /\ LET from == loc["r"].startPos
           to   == loc["r"].endPos
       IN  IF to - from < 0
           THEN Crash("panic", indexes)
           ELSE /\ pc' = [pc EXCEPT !["r"] = "dec"]
                /\ IF ~ReadAtOk(fileOpen, fileSize, from, to - from)
                   THEN loc' = [loc EXCEPT !["r"].err = "IOError"]
                   ELSE LET res == Deframe(ReadBytes(fileData, from, to - from), 0, << >>)
                        IN  loc' = [loc EXCEPT !["r"].err = res.err,
                                               !["r"].entries = res.entries]
    /\ UNCHANGED << blockVars, flagVars, syncVars, fileVars, phase, histVars >>

ReadDec ==
    /\ pc["r"] = "dec"
    /\ uncompletedReadRequestCount' = uncompletedReadRequestCount - 1
    /\ pc' = [pc EXCEPT !["r"] = "idle"]
    /\ loc' = [loc EXCEPT !["r"] = NoRead]
    /\ lastOp' = [NoOp EXCEPT !.op = "Read", !.start = loc["r"].start,
                              !.cnt = loc["r"].cnt, !.err = loc["r"].err,
                              !.entries = loc["r"].entries]
    /\ UNCHANGED << blockVars, flagVars, uncompletedAppendRequestCount, appendMutex,
                    fileVars, phase, appended, clean, prev, closeWriteReturned,
                    reopens, ioFailures, calls, journal >>

\* CloseRead: physicalFile.Close(), which fails on a closed descriptor
CloseReadClose ==
    /\ phase = "ready" /\ pc["cr"] = "idle" /\ fileOpen
    /\ fileOpen' = FALSE
    /\ pc' = [pc EXCEPT !["cr"] = "flag"]
    /\ UNCHANGED << blockVars, flagVars, syncVars, fileData, fileSize, filePos, phase,
                    loc, histVars >>

CloseReadFlag ==
    /\ pc["cr"] = "flag"
    /\ readable' = FALSE
    /\ pc' = [pc EXCEPT !["cr"] = "spin"]
    /\ UNCHANGED << blockVars, appendable, fullFlag, syncVars, fileVars, phase, loc,
                    histVars >>

\* the loop ends on reading 0; reading anything else sleeps and reads again
CloseReadSpin ==
    /\ pc["cr"] = "spin" /\ uncompletedReadRequestCount = 0
    /\ pc' = [pc EXCEPT !["cr"] = "idle"]
    /\ UNCHANGED << blockVars, flagVars, syncVars, fileVars, phase, loc, histVars >>

\* one Append thread, one Read thread and CloseRead
ReadNext ==
    \/ Initialize
    \/ \E a \in {"a1"} :
        \/ \E entities \in SizedBatches : AppendCall(a, entities)
        \/ AppendLock(a) \/ AppendInc(a) \/ AppendBody(a) \/ AppendWrite(a)
        \/ AppendIdx(a) \/ AppendNum(a) \/ AppendOff(a)
        \/ AppendUnlock(a) \/ AppendDec(a)
    \/ \E start \in 0..MaxStart, cnt \in 1..MaxCount : ReadCall(start, cnt)
    \/ ReadInc \/ ReadLen \/ ReadStartPos \/ ReadNum \/ ReadEndPos \/ ReadAt \/ ReadDec
    \/ CloseReadClose \/ CloseReadFlag \/ CloseReadSpin

ReadSpec == Init /\ [][ReadNext]_vars

(* -------------------- CloseWrite under fair scheduling ------------------- *)
\* Append(ctx) with no entities: it stores nothing, so it is not counted
AppendCallEmpty(a) ==
    /\ phase = "ready" /\ pc[a] = "idle"
    /\ pc' = [pc EXCEPT ![a] = "lock"]
    /\ loc' = [loc EXCEPT ![a] = [NoLoc EXCEPT !.after = closeWriteReturned]]
    /\ UNCHANGED << blockVars, flagVars, syncVars, fileVars, phase, histVars >>

AppendStep(a) ==
    \/ AppendLock(a) \/ AppendInc(a) \/ AppendBody(a) \/ AppendWrite(a)
    \/ AppendIdx(a) \/ AppendNum(a) \/ AppendOff(a)
    \/ AppendUnlock(a) \/ AppendDec(a)

CloseWriteStep ==
    \/ CloseWriteSpin \/ CloseWriteLock \/ CloseWriteHeader \/ CloseWriteIndex

LiveNext ==
    \/ Initialize
    \/ \E a \in Appenders :
        \/ \E entities \in SizedBatches : AppendCall(a, entities)
        \/ AppendCallEmpty(a)
        \/ AppendLock(a) \/ AppendInc(a) \/ AppendBody(a) \/ AppendWrite(a)
        \/ AppendIdx(a) \/ AppendNum(a) \/ AppendOff(a)
        \/ AppendUnlock(a) \/ AppendDec(a)
    \/ CloseWriteStart \/ CloseWriteSpin \/ CloseWriteLock
    \/ CloseWriteHeader \/ CloseWriteIndex

\* a thread that can again and again take a step of its call in progress
\* eventually takes it: a thread waiting for appendMutex gets it (sync.Mutex
\* hands the lock to a waiter that has waited long), and the spin loop of
\* CloseWrite is even taken to catch a zero that keeps coming back; when
\* calls are made is up to the callers
LiveSpec ==
    /\ Init /\ [][LiveNext]_vars
    /\ \A a \in Appenders : SF_vars(AppendStep(a))
    /\ SF_vars(CloseWriteStep)

(* ------------------------------ predicates ------------------------------ *)
IsFull(full) == full

IsEmpty(len) == len = fileSegmentBlockHeaderCapacity

IsAppendable(app, full) == app /\ ~IsFull(full)

IsReadable(app, len) == app /\ ~IsEmpty(len)

(* ------------------------------ properties ------------------------------ *)
RECURSIVE FramedTotal(_)
\* total framed size of a batch: 4 bytes of length and the payload, per entry
FramedTotal(batch) ==
    IF batch = << >> THEN 0 ELSE 4 + Len(Head(batch).Payload) + FramedTotal(Tail(batch))

\* C1: on an initialized block, after Appends that were all accepted,
\* Read(0, number of appended entries) returns exactly the appended entries,
\* in order, with their lengths and payloads.
AppendReadRoundTrip ==
    (/\ lastOp.op = "Read" /\ clean /\ fileOpen
     /\ Len(appended) > 0 /\ lastOp.start = 0 /\ lastOp.cnt = Len(appended))
    => (lastOp.err = "nil" /\ lastOp.entries = appended)

\* C2: after an Append that stored a batch on an initialized block,
\* 1024 <= writeOffset <= capacity - number * 12.
CapacityBound ==
    (lastOp.op = "Append" /\ lastOp.err = "nil" /\ Len(lastOp.batch) > 0)
    => /\ fileSegmentBlockHeaderCapacity <= writeOffset
       /\ writeOffset <= capacity - number * v1IndexLength

\* C3: an Append of a non-empty batch that starts after CloseWrite returned
\* does not succeed and changes neither the file nor number, writeOffset,
\* length and indexes (stated for the calls whose file write, if they get
\* to it, does not fail).
NoAppendAfterCloseWrite ==
    (/\ lastOp.op = "Append" /\ lastOp.after /\ Len(lastOp.batch) > 0
     /\ lastOp.err # "IOError")
    => (lastOp.err # "nil" /\ Snapshot = lastOp.pre)

\* C7: an Append of a non-empty batch of k entries of total framed size s
\* returns NoEnoughCapacity exactly when
\* s > capacity - length - number*12 - (s + 12*k) - 1024, and then changes
\* nothing; an Append of an empty batch succeeds and changes nothing.
CapacityRejection ==
    lastOp.op = "Append"
    => LET k == Len(lastOp.batch)
           s == FramedTotal(lastOp.batch)
           p == lastOp.pre
       IN  /\ k > 0 => ((lastOp.err = "NoEnoughCapacity")
                        <=> (s > p.capacity - p.length - p.number * 12 - (s + 12 * k) - 1024))
           /\ k = 0 => lastOp.err = "nil"
           /\ (k = 0 \/ lastOp.err = "NoEnoughCapacity") => Snapshot = p

\* C7 witness: a non-empty batch was rejected on a block that holds entries
CapacityRejected ==
    /\ lastOp.op = "Append" /\ lastOp.err = "NoEnoughCapacity"
    /\ Len(lastOp.batch) > 0 /\ number > 0

\* C8: when the file write inside Append fails, number, writeOffset, length
\* and indexes are what they were before the call.
FailedWriteConsistent ==
    (lastOp.op = "Append" /\ lastOp.err = "IOError")
    => /\ number = lastOp.pre.number /\ writeOffset = lastOp.pre.writeOffset
       /\ length = lastOp.pre.length /\ indexes = lastOp.pre.indexes

\* C9: with nothing else in progress, Read(startOrdinal, count >= 1) returns
\* OffsetExceeded, and no entries, exactly when startOrdinal >= number.
ReadOffsetExceeded ==
    lastOp.op = "Read"
    => /\ (lastOp.err = "OffsetExceeded") <=> (lastOp.start >= number)
       /\ lastOp.err = "OffsetExceeded" => lastOp.entries = << >>

\* C9 witness: a Read beyond the entries of a non-empty block was refused
ReadBeyondRefused ==
    /\ lastOp.op = "Read" /\ lastOp.err = "OffsetExceeded"
    /\ number > 0 /\ lastOp.start >= number

\* C10: with nothing else in progress, for 0 <= startOrdinal < number and
\* count >= 1, Read returns without error the entries of ordinals
\* startOrdinal .. min(startOrdinal + count, number) - 1, in order.
ReadClamping ==
    (lastOp.op = "Read" /\ clean /\ fileOpen /\ lastOp.start < number)
    => /\ lastOp.err = "nil"
       /\ lastOp.entries =
            SubSeq(appended, lastOp.start + 1, Min(lastOp.start + lastOp.cnt, number))

\* C5: after accepted Appends whose count the header records, the index
\* Initialize rebuilds on the partial-block path equals, record for record,
\* the index the Append path had built in memory.
RecoveryEquivalence ==
    (/\ lastOp.op = "Initialize" /\ lastOp.path = "rebuild"
     /\ prev.clean /\ Len(prev.indexes) > 0 /\ number = Len(prev.indexes))
    => (lastOp.err = "nil" /\ indexes = prev.indexes)

\* C6: when a block marked full is closed with CloseWrite after accepted
\* Appends, Initialize on the full path of the reopened file yields the
\* index that was in memory when CloseWrite ran.
SealReopenRoundTrip ==
    (/\ lastOp.op = "Initialize" /\ lastOp.path = "full"
     /\ prev.sealed /\ prev.clean /\ Len(prev.indexes) > 0)
    => (lastOp.err = "nil" /\ indexes = prev.indexes)

\* C4: when CloseWrite has left its spin-wait, no Append of a non-empty
\* batch that held appendMutex when CloseWrite started is still in flight.
QuiescenceBarrier ==
    pc["cw"] = "hlock" => \A a \in Appenders : ~loc[a].before

RECURSIVE SumIndexLen(_, _)
\* sum of the lengths of the first k index records
SumIndexLen(idx, k) == IF k = 0 THEN 0 ELSE SumIndexLen(idx, k - 1) + idx[k].length

\* C11: after CloseWrite returned successfully the block is sealed:
\* appendable is false, full is true, IsAppendable() is false, and the
\* index region, 12 bytes per entry, is in the file at writeOffset.
CloseWriteSeals ==
    (lastOp.op = "CloseWrite" /\ lastOp.err = "nil")
    => /\ ~appendable /\ fullFlag /\ ~IsAppendable(appendable, fullFlag)
       /\ ReadBytes(fileData, writeOffset, v1IndexLength * number)
            = IndexBytes(indexes, number)

\* C14: IsEmpty() is true exactly when length = 0; it is true on a freshly
\* initialized block.
IsEmptyIffNoPayload ==
    phase = "ready" => (IsEmpty(length) <=> length = 0)

\* C15: after a successful Append of a batch, length is the sum of the
\* lengths of the index records and writeOffset = 1024 + length.
CounterConsistency ==
    (lastOp.op = "Append" /\ lastOp.err = "nil" /\ Len(lastOp.batch) > 0 /\ clean)
    => /\ length = SumIndexLen(indexes, Len(indexes))
       /\ writeOffset = fileSegmentBlockHeaderCapacity + length

\* C16: after Initialize and successful Appends, record i starts at
\* 1024 + the lengths of the records before it, and its length is the
\* framed size, 4 + payload length, of entry i.
IndexPacking ==
    (phase = "ready" /\ clean /\ Len(indexes) = Len(appended))
    => \A i \in 1..Len(indexes) :
        /\ indexes[i].startOffset
             = fileSegmentBlockHeaderCapacity + SumIndexLen(indexes, i - 1)
        /\ indexes[i].length = 4 + Len(appended[i].Payload)

\* C20: over a byte range of whole frames, the deframing loop of Read
\* returns one entry per frame, also when the last frame has an empty
\* payload, and ends without error.
DeframeOnePerFrame ==
    (lastOp.op = "Read" /\ clean /\ fileOpen /\ lastOp.start < number)
    => /\ lastOp.err = "nil"
       /\ Len(lastOp.entries) = Min(lastOp.start + lastOp.cnt, number) - lastOp.start

\* C12: in every state, also in the middle of an Append, for every ordinal
\* below number the index record exists, the bytes it refers to are in the
\* file, and Read of that ordinal returns that entry (stated for the runs
\* in which no file write failed).
PublishedReadable ==
    (phase = "ready" /\ ioFailures = 0)
    => \A i \in 1..number :
        /\ i <= Len(indexes) /\ i <= Len(journal.stored)
        /\ ReadBytes(fileData, indexes[i].startOffset, indexes[i].length)
             = Marshall(journal.stored[i].entry)
        /\ ReadResult(indexes, number, fileData, fileOpen, fileSize, i - 1, 1)
             = [ err |-> "nil", entries |-> << journal.stored[i].entry >> ]

CloseReadDrainsFirst ==
    [][(fileOpen /\ ~fileOpen') => uncompletedReadRequestCount = 0]_vars

\* C19: a Read with count >= 1 that is not refused with OffsetExceeded
\* dereferences index positions inside indexes only, ends at an ordinal
\* >= start, and resolves a byte range with from < to (stated for the Reads
\* whose every read of indexes saw the slice whole).
ReadRangeWellFormed ==
    ~loc["r"].torn
    => /\ loc["r"].err # "panic"
       /\ pc["r"] = "readAt" => /\ loc["r"].last >= loc["r"].start
                                /\ loc["r"].startPos < loc["r"].endPos

\* C18: once CloseWrite has cleared appendable it returns.
CloseWriteTerminates ==
    (pc["cw"] = "spin") ~> (pc["cw"] = "idle")

====
